---- MODULE Spec2Model ----
(***************************************************************************)
(* MinGW Builds Downloader (src/src/main.cpp) as a state machine.          *)
(*                                                                         *)
(* One consumer context (the FLTK main thread) runs the widget callbacks   *)
(* and the handlers posted with Fl::awake, in FIFO order.  Detached        *)
(* worker threads run the refresh lambda (fetch + parse_releases) and      *)
(* download_file (transfer, count, extract).  All program state is the     *)
(* file's globals plus the widgets' values.                                *)
(*                                                                         *)
(* Strings are sequences of symbols.  A symbol is one character ("a",      *)
(* "-", ".") or one indivisible word of an asset name ("posix", "x86_64"). *)
(* Progress percentages are whole numbers: x / y * 100.0 is (x*100) \div y,*)
(* which keeps order and the value 100 exactly.                            *)
(***************************************************************************)
EXTENDS Integers, Sequences, FiniteSets, TLC

\* ------------------------------------------------------------------------
\* Bounds of the model
\* ------------------------------------------------------------------------

\* refresh clicks in one run (each starts a detached thread)
MaxRefreshes == 2
\* Download / Download+Extract clicks in one run (each starts a thread)
MaxDownloads == 2
\* progress polls of one transfer; also the byte total of a sized transfer
MaxTicks == 2
\* a thread posts only while fewer than this many posted handlers wait
MaxQueue == 2

\* ------------------------------------------------------------------------
\* Sequences of symbols
\* ------------------------------------------------------------------------

\* s.compare(0, p.size(), p) == 0 with s.size() >= p.size()
StartsWith(s, p) ==
    /\ Len(s) >= Len(p)
    /\ SubSeq(s, 1, Len(p)) = p

\* s.find(tok) != npos
Contains(s, tok) ==
    \E i \in 1..(Len(s) - Len(tok) + 1) : SubSeq(s, i, i + Len(tok) - 1) = tok

\* ------------------------------------------------------------------------
\* Attribute parser
\* ------------------------------------------------------------------------

ArchVals == {"Any", "I686", "X86_64"}
MRTVals == {"Any", "Posix", "Win32", "Mcf"}
EXCVals == {"Any", "Seh", "Dwarf"}
CRTVals == {"Any", "Ucrt", "Msvcrt"}
RTVals == {"Any", "V13"}

\* struct AssetInfo / struct Filters: the same five fields
AssetInfo == [arch : ArchVals, mrt : MRTVals, exc : EXCVals, crt : CRTVals, rt : RTVals]

\* Filters{} : every field Any
NoFilters == [arch |-> "Any", mrt |-> "Any", exc |-> "Any", crt |-> "Any", rt |-> "Any"]

has_token(s, tok) == Contains(s, tok)

\* parse_asset_name looking for the architecture anywhere in the name
parse_asset_name_ArchAnywhere(name) ==
    [arch |-> IF has_token(name, <<"i686", "-">>) THEN "I686"
              ELSE IF has_token(name, <<"x86_64", "-">>) THEN "X86_64"
              ELSE "Any",
     mrt |-> IF has_token(name, <<"-", "posix", "-">>) THEN "Posix"
             ELSE IF has_token(name, <<"-", "win32", "-">>) THEN "Win32"
             ELSE IF has_token(name, <<"-", "mcf", "-">>) THEN "Mcf"
             ELSE "Any",
     exc |-> IF has_token(name, <<"-", "seh", "-">>) THEN "Seh"
             ELSE IF has_token(name, <<"-", "dwarf", "-">>) THEN "Dwarf"
             ELSE "Any",
     crt |-> IF has_token(name, <<"-", "ucrt", "-">>) THEN "Ucrt"
             ELSE IF has_token(name, <<"-", "msvcrt", "-">>) THEN "Msvcrt"
             ELSE "Any",
     rt |-> IF \/ has_token(name, <<"-", "rt_v13", "-">>)
               \/ has_token(name, <<"-", "rt_v13", ".">>)
            THEN "V13" ELSE "Any"]

\* parse_asset_name asking for "-win32-" before "-posix-", "-dwarf-" before
\* "-seh-" and "-msvcrt-" before "-ucrt-"
parse_asset_name_OtherOrder(name) ==
    [arch |-> IF StartsWith(name, <<"i686", "-">>) THEN "I686"
              ELSE IF StartsWith(name, <<"x86_64", "-">>) THEN "X86_64"
              ELSE "Any",
     mrt |-> IF has_token(name, <<"-", "win32", "-">>) THEN "Win32"
             ELSE IF has_token(name, <<"-", "posix", "-">>) THEN "Posix"
             ELSE IF has_token(name, <<"-", "mcf", "-">>) THEN "Mcf"
             ELSE "Any",
     exc |-> IF has_token(name, <<"-", "dwarf", "-">>) THEN "Dwarf"
             ELSE IF has_token(name, <<"-", "seh", "-">>) THEN "Seh"
             ELSE "Any",
     crt |-> IF has_token(name, <<"-", "msvcrt", "-">>) THEN "Msvcrt"
             ELSE IF has_token(name, <<"-", "ucrt", "-">>) THEN "Ucrt"
             ELSE "Any",
     rt |-> IF \/ has_token(name, <<"-", "rt_v13", "-">>)
               \/ has_token(name, <<"-", "rt_v13", ".">>)
            THEN "V13" ELSE "Any"]

parse_asset_name(name) ==
    [arch |-> IF StartsWith(name, <<"i686", "-">>) THEN "I686"
              ELSE IF StartsWith(name, <<"x86_64", "-">>) THEN "X86_64"
              ELSE "Any",
     mrt |-> IF has_token(name, <<"-", "posix", "-">>) THEN "Posix"
             ELSE IF has_token(name, <<"-", "win32", "-">>) THEN "Win32"
             ELSE IF has_token(name, <<"-", "mcf", "-">>) THEN "Mcf"
             ELSE "Any",
     exc |-> IF has_token(name, <<"-", "seh", "-">>) THEN "Seh"
             ELSE IF has_token(name, <<"-", "dwarf", "-">>) THEN "Dwarf"
             ELSE "Any",
     crt |-> IF has_token(name, <<"-", "ucrt", "-">>) THEN "Ucrt"
             ELSE IF has_token(name, <<"-", "msvcrt", "-">>) THEN "Msvcrt"
             ELSE "Any",
     rt |-> IF \/ has_token(name, <<"-", "rt_v13", "-">>)
               \/ has_token(name, <<"-", "rt_v13", ".">>)
            THEN "V13" ELSE "Any"]

\* ------------------------------------------------------------------------
\* Program state
\* ------------------------------------------------------------------------

VARIABLES
    gReleases,        \* std::vector<Release>: <<[tag, assets : <<[name, info]>>]>>
    gFilters,         \* Filters (the five Fl_Choice filter widgets show the same values)
    gAssetIndexMap,   \* list row -> index into release.assets (0-based values)
    gReleaseItems,    \* gRelease: number of menu items
    gReleaseValue,    \* gRelease->value(): 0-based, -1 when nothing is selected
    gAssetsItems,     \* gAssets: the names shown, row by row
    gAssetsValue,     \* gAssets->value(): 1-based row, 0 when nothing is selected
    gStatus,          \* gStatus label
    gProgress,        \* gProgress->value()
    gCancel, gLastCurlResult, gProgressValue, gRefreshStage,
    gDoExtract, gExtractOk, gExtractErr, gExtractTotal, gExtractDone,
    gUiText,
    awakeQ,           \* handlers posted with Fl::awake, oldest first
    refreshers,       \* the threads started by on_refresh
    downloads,        \* the threads started by start_download
    crashed,          \* the process died on an out-of-range vector access
    uiSaw             \* what the consumer's last read of gReleases returned

viewVars == <<gReleases, gFilters, gAssetIndexMap, gReleaseItems, gReleaseValue,
              gAssetsItems, gAssetsValue>>
uiVars == <<gStatus, gProgress>>
flagVars == <<gCancel, gDoExtract, gExtractOk, gExtractErr>>
xferVars == <<gLastCurlResult, gProgressValue>>
extrVars == <<gExtractTotal, gExtractDone>>
vars == <<viewVars, uiVars, flagVars, xferVars, extrVars, gRefreshStage, gUiText,
          awakeQ, refreshers, downloads, crashed, uiSaw>>

Refreshers == 1..MaxRefreshes
Workers == 1..MaxDownloads

\* Fl::awake(handler): one more entry at the tail.  op and n say who posted it
\* and with which completed-entry count; the handlers themselves get no
\* argument (void *) and read the globals when they run.
Post(q, h, op, n) == Append(q, [h |-> h, op |-> op, n |-> n])

\* ------------------------------------------------------------------------
\* Filter engine
\* ------------------------------------------------------------------------

\* match_filter with Any treated as one more concrete value
match_filter_AnyIsConcrete(want, got) == want # "Any" \/ want = got

match_filter(want, got) == want = "Any" \/ want = got

\* asset_matches with the runtime-version test left out
asset_matches_NoRt(a, F) ==
    /\ match_filter(F.arch, a.info.arch)
    /\ match_filter(F.mrt, a.info.mrt)
    /\ match_filter(F.exc, a.info.exc)
    /\ match_filter(F.crt, a.info.crt)

asset_matches(a, F) ==
    /\ match_filter(F.arch, a.info.arch)
    /\ match_filter(F.mrt, a.info.mrt)
    /\ match_filter(F.exc, a.info.exc)
    /\ match_filter(F.crt, a.info.crt)
    /\ match_filter(F.rt, a.info.rt)

\* the for loop of rebuild_asset_list_for_release from index i on:
\* <<names added to gAssets, indices pushed to gAssetIndexMap>>
RECURSIVE AssetLoop(_, _, _, _)
AssetLoop(assets, F, i, acc) ==
    IF i >= Len(assets) THEN acc
    ELSE AssetLoop(assets, F, i + 1,
                   IF asset_matches(assets[i + 1], F)
                   THEN <<Append(acc[1], assets[i + 1].name), Append(acc[2], i)>>
                   ELSE acc)

\* The consumer reads gReleases: the value it gets, and the refresh threads
\* running at that moment.
ReadReleases ==
    [val |-> gReleases,
     inflight |-> {r \in Refreshers : refreshers[r].pc \in {"fetch", "parse", "iter"}}]

\* rebuild_asset_list_for_release that lists every asset, whatever F
rebuild_asset_list_for_release_Unfiltered(r_idx, F) ==
    LET res == IF r_idx < 0 \/ r_idx >= Len(gReleases) THEN <<<<>>, <<>>>>
               ELSE AssetLoop(gReleases[r_idx + 1].assets, NoFilters, 0, <<<<>>, <<>>>>)
    IN /\ gAssetsItems' = res[1]
       /\ gAssetsValue' = 0
       /\ gAssetIndexMap' = res[2]
       /\ uiSaw' = ReadReleases

\* rebuild_asset_list_for_release(r_idx) under filters F (gFilters, as just set)
rebuild_asset_list_for_release(r_idx, F) ==
    LET res == IF r_idx < 0 \/ r_idx >= Len(gReleases) THEN <<<<>>, <<>>>>
               ELSE AssetLoop(gReleases[r_idx + 1].assets, F, 0, <<<<>>, <<>>>>)
    IN /\ gAssetsItems' = res[1]
       /\ gAssetsValue' = 0
       /\ gAssetIndexMap' = res[2]
       /\ uiSaw' = ReadReleases

\* ------------------------------------------------------------------------
\* Metadata payloads and parse_releases
\* ------------------------------------------------------------------------

\* A response body: syntax = json::parse accepts it; rels = the elements the
\* range-for visits.  bad = r.value("tag_name", "") throws type_error (the
\* element is no object, or the field is no string).  An empty name is an
\* asset without "name".
Rel(tag, names) == [tag |-> tag, bad |-> FALSE, names |-> names]
BadRel == [tag |-> "", bad |-> TRUE, names |-> <<>>]
Payload(rels) == [syntax |-> TRUE, rels |-> rels]
Malformed == [syntax |-> FALSE, rels |-> <<>>]

NameA == <<"x86_64", "-", "rel", "-", "posix", "-", "seh", "-", "ucrt", "-", "rt_v13", "-", "rev1", ".", "7z">>
NameB == <<"i686", "-", "rel", "-", "win32", "-", "dwarf", "-", "msvcrt", "-", "rev1", ".", "7z">>
NameC == <<"rel", ".", "zip">>

\* the bodies the server answers with in SpecView
Payloads ==
    { Payload(<<Rel("v2", <<NameA, NameB>>), Rel("v1", <<NameC>>)>>),
      Payload(<<Rel("v3", <<NameB>>)>>),
      Payload(<<Rel("v2", <<NameA, NameB>>), BadRel>>),
      Payload(<<>>),
      Malformed }

\* Asset asset; asset.name = ...; asset.info = parse_asset_name(asset.name)
MakeAsset(n) == [name |-> n, info |-> parse_asset_name(n)]

\* the body of the range-for over j for one element (that does not throw):
\* the collection after it
PushRelease(rels, rr) ==
    LET all == [i \in 1..Len(rr.names) |-> MakeAsset(rr.names[i])]
        kept == SelectSeq(all, LAMBDA a : a.name # <<>>)
    IN IF rr.tag # "" THEN Append(rels, [tag |-> rr.tag, assets |-> kept]) ELSE rels

\* the collection a payload decodes to, when every element decodes
RECURSIVE DecodeFrom(_, _, _)
DecodeFrom(p, i, acc) ==
    IF i > Len(p.rels) THEN acc ELSE DecodeFrom(p, i + 1, PushRelease(acc, p.rels[i]))
Decodes(p) == p.syntax /\ \A i \in 1..Len(p.rels) : ~p.rels[i].bad
Decoded(p) == DecodeFrom(p, 1, <<>>)

IdleRefresher == [pc |-> "idle", data |-> Malformed, idx |-> 0, before |-> <<>>, stage |-> 0]

\* gRefreshStage = st; Fl::awake(awake_refresh_done); return;
RefreshEnds(r, st) ==
    /\ Len(awakeQ) < MaxQueue
    /\ gRefreshStage' = st
    /\ awakeQ' = Post(awakeQ, "refresh_done", r, 0)
    /\ refreshers' = [refreshers EXCEPT ![r].pc = "done", ![r].stage = st]

\* on_refresh: the button callback; the lambda starts as thread r
on_refresh(r) ==
    /\ ~crashed
    /\ refreshers[r].pc = "idle"
    /\ \A q \in Refreshers : q < r => refreshers[q].pc # "idle"
    /\ gStatus' = "Fetching releases..."
    /\ gProgress' = 0
    /\ refreshers' = [refreshers EXCEPT ![r].pc = "fetch", ![r].before = gReleases]
    /\ UNCHANGED <<viewVars, flagVars, xferVars, extrVars, gRefreshStage, gUiText,
                   awakeQ, downloads, crashed, uiSaw>>

\* fetch_releases_json returns {} (no handle, transport error, empty body)
R_FetchFails(r) ==
    /\ ~crashed
    /\ refreshers[r].pc = "fetch"
    /\ RefreshEnds(r, 1)
    /\ UNCHANGED <<viewVars, uiVars, flagVars, xferVars, extrVars, gUiText,
                   downloads, crashed, uiSaw>>

\* fetch_releases_json returns a body
R_Fetched(r, p) ==
    /\ ~crashed
    /\ refreshers[r].pc = "fetch"
    /\ refreshers' = [refreshers EXCEPT ![r].pc = "parse", ![r].data = p]
    /\ UNCHANGED <<viewVars, uiVars, flagVars, xferVars, extrVars, gRefreshStage, gUiText,
                   awakeQ, downloads, crashed, uiSaw>>

\* parse_releases: gReleases.clear(); json::parse(data)
R_ParseBegin(r) ==
    LET p == refreshers[r].data IN
    /\ ~crashed
    /\ refreshers[r].pc = "parse"
    /\ gReleases' = <<>>
    /\ IF ~p.syntax THEN RefreshEnds(r, 2)
       ELSE IF Len(p.rels) = 0 THEN RefreshEnds(r, 3)
       ELSE /\ refreshers' = [refreshers EXCEPT ![r].pc = "iter", ![r].idx = 1]
            /\ UNCHANGED <<gRefreshStage, awakeQ>>
    /\ UNCHANGED <<gFilters, gAssetIndexMap, gReleaseItems, gReleaseValue, gAssetsItems,
                   gAssetsValue, uiVars, flagVars, xferVars, extrVars, gUiText,
                   downloads, crashed, uiSaw>>

\* parse_releases: one round of for (auto &r: j)
R_ParseRelease(r) ==
    LET p == refreshers[r].data
        i == refreshers[r].idx
    IN
    /\ ~crashed
    /\ refreshers[r].pc = "iter"
    /\ IF p.rels[i].bad
       THEN /\ RefreshEnds(r, 2)
            /\ UNCHANGED gReleases
       ELSE /\ gReleases' = PushRelease(gReleases, p.rels[i])
            /\ IF i = Len(p.rels) THEN RefreshEnds(r, 3)
               ELSE /\ refreshers' = [refreshers EXCEPT ![r].idx = i + 1]
                    /\ UNCHANGED <<gRefreshStage, awakeQ>>
    /\ UNCHANGED <<gFilters, gAssetIndexMap, gReleaseItems, gReleaseValue, gAssetsItems,
                   gAssetsValue, uiVars, flagVars, xferVars, extrVars, gUiText,
                   downloads, crashed, uiSaw>>

\* awake_refresh_done, with populate_release_choice inlined for st == 3
awake_refresh_done ==
    /\ ~crashed
    /\ awakeQ # <<>>
    /\ Head(awakeQ).h = "refresh_done"
    /\ awakeQ' = Tail(awakeQ)
    /\ IF gRefreshStage = 3
       THEN /\ gReleaseItems' = Len(gReleases)
            /\ IF gReleases # <<>>
               THEN /\ gReleaseValue' = 0
                    /\ rebuild_asset_list_for_release(0, gFilters)
               ELSE /\ gReleaseValue' = -1
                    /\ uiSaw' = ReadReleases
                    /\ UNCHANGED <<gAssetIndexMap, gAssetsItems, gAssetsValue>>
            /\ gStatus' = "Releases loaded."
       ELSE /\ gStatus' = CASE gRefreshStage = 1 -> "Network error."
                             [] gRefreshStage = 2 -> "JSON parse error."
                             [] OTHER -> gStatus
            /\ UNCHANGED <<gAssetIndexMap, gReleaseItems, gReleaseValue, gAssetsItems,
                           gAssetsValue, uiSaw>>
    /\ UNCHANGED <<gReleases, gFilters, gProgress, flagVars, xferVars, extrVars,
                   gRefreshStage, gUiText, refreshers, downloads, crashed>>

\* the user picks menu item i of gRelease: on_release_changed
on_release_changed(i) ==
    /\ ~crashed
    /\ i \in 0..(gReleaseItems - 1)
    /\ gReleaseValue' = i
    /\ rebuild_asset_list_for_release(i, gFilters)
    /\ UNCHANGED <<gReleases, gFilters, gReleaseItems, uiVars, flagVars, xferVars, extrVars,
                   gRefreshStage, gUiText, awakeQ, refreshers, downloads, crashed>>

\* the user sets the filter widgets to sel: on_filters_changed
on_filters_changed(sel) ==
    /\ ~crashed
    /\ gFilters' = sel
    /\ rebuild_asset_list_for_release(gReleaseValue, sel)
    /\ UNCHANGED <<gReleases, gReleaseItems, gReleaseValue, uiVars, flagVars, xferVars,
                   extrVars, gRefreshStage, gUiText, awakeQ, refreshers, downloads, crashed>>

\* on_reset_filters without the rebuild of the list
on_reset_filters_NoRebuild ==
    /\ ~crashed
    /\ gFilters' = NoFilters
    /\ UNCHANGED <<gReleases, gAssetIndexMap, gReleaseItems, gReleaseValue, gAssetsItems,
                   gAssetsValue, uiVars, flagVars, xferVars, extrVars, gRefreshStage,
                   gUiText, awakeQ, refreshers, downloads, crashed, uiSaw>>

on_reset_filters ==
    /\ ~crashed
    /\ gFilters' = NoFilters
    /\ rebuild_asset_list_for_release(gReleaseValue, NoFilters)
    /\ UNCHANGED <<gReleases, gReleaseItems, gReleaseValue, uiVars, flagVars, xferVars,
                   extrVars, gRefreshStage, gUiText, awakeQ, refreshers, downloads, crashed>>

\* the user clicks row k of gAssets (no callback is attached)
SelectRow(k) ==
    /\ ~crashed
    /\ k \in 1..Len(gAssetsItems)
    /\ k # gAssetsValue
    /\ gAssetsValue' = k
    /\ UNCHANGED <<gReleases, gFilters, gAssetIndexMap, gReleaseItems, gReleaseValue,
                   gAssetsItems, uiVars, flagVars, xferVars, extrVars, gRefreshStage,
                   gUiText, awakeQ, refreshers, downloads, crashed, uiSaw>>

\* ------------------------------------------------------------------------
\* Paths (std::filesystem::path, generic format)
\* ------------------------------------------------------------------------

\* root: the path is absolute; comps: its filenames, each a string;
\* trail: it ends in a directory separator
Dot == <<".">>
DotDot == <<".", ".">>
MkPath(root, comps) == [root |-> root, comps |-> comps, trail |-> FALSE]
EmptyPath == MkPath(FALSE, <<>>)

\* base / rel
PathJoin(base, rel) ==
    IF rel.root THEN rel
    ELSE [root |-> base.root, comps |-> base.comps \o rel.comps,
          trail |-> IF rel.comps = <<>> THEN TRUE ELSE rel.trail]

\* lexically_normal, the filenames: "." dropped, "name/.." cancelled,
\* ".." directly under the root dropped
RECURSIVE NormalComps(_, _, _, _)
NormalComps(comps, i, acc, root) ==
    IF i > Len(comps) THEN acc
    ELSE LET c == comps[i] IN
         NormalComps(comps, i + 1,
            IF c = Dot THEN acc
            ELSE IF c = DotDot
                 THEN IF acc # <<>> /\ acc[Len(acc)] # DotDot
                      THEN SubSeq(acc, 1, Len(acc) - 1)
                      ELSE IF root THEN acc ELSE Append(acc, DotDot)
                 ELSE Append(acc, c),
            root)

lexically_normal(p) ==
    LET n == NormalComps(p.comps, 1, <<>>, p.root)
        last == IF p.comps = <<>> THEN <<>> ELSE p.comps[Len(p.comps)]
    IN [root |-> p.root, comps |-> n,
        trail |-> IF n = <<>> \/ n[Len(n)] = DotDot THEN FALSE
                  ELSE p.trail \/ last = Dot \/ last = DotDot]

\* path::native(): the characters of the path
RECURSIVE JoinComps(_, _)
JoinComps(comps, i) ==
    IF i > Len(comps) THEN <<>>
    ELSE comps[i] \o (IF i < Len(comps) THEN <<"/">> ELSE <<>>) \o JoinComps(comps, i + 1)
native(p) ==
    IF ~p.root /\ p.comps = <<>> THEN Dot
    ELSE (IF p.root THEN <<"/">> ELSE <<>>) \o JoinComps(p.comps, 1)
         \o (IF p.trail THEN <<"/">> ELSE <<>>)

\* safe_join: ok = FALSE when it throws "Blocked path traversal in archive entry"
safe_join(base, rel) ==
    LET out == lexically_normal(PathJoin(base, rel))
        baseN == lexically_normal(base)
    IN [ok |-> StartsWith(native(out), native(baseN)), path |-> out]

\* ap.stem() of a file name: up to its last "." (kept whole without one, or
\* when the only one leads)
RECURSIVE LastDot(_, _)
LastDot(name, i) == IF i = 0 THEN 0 ELSE IF name[i] = "." THEN i ELSE LastDot(name, i - 1)
Stem(name) ==
    LET k == LastDot(name, Len(name)) IN IF k <= 1 THEN name ELSE SubSeq(name, 1, k - 1)

\* extractDir = ap.parent_path() / ap.stem()
ExtractDirOf(outPath) == MkPath(outPath.dir.root, Append(outPath.dir.comps, Stem(outPath.file)))

\* ------------------------------------------------------------------------
\* Archives (what libarchive reports for the downloaded file)
\* ------------------------------------------------------------------------

\* open: archive_read_open_filename succeeds; entries: the headers read
\* with ARCHIVE_OK, in order; tail: what archive_read_next_header returns
\* after them.  Per entry: hdr = archive_write_header succeeds, data =
\* copy_archive_data succeeds.
Entry(path, hdr, data) == [path |-> path, hdr |-> hdr, data |-> data]
Good(comps) == Entry(MkPath(FALSE, comps), TRUE, TRUE)
Archive(entries) == [open |-> TRUE, entries |-> entries, tail |-> "eof"]
NoArchive == [open |-> FALSE, entries |-> <<>>, tail |-> "err"]

count_archive_entries(a) ==
    IF ~a.open THEN -1
    ELSE IF a.tail # "eof" THEN -1
    ELSE Len(a.entries)

X == <<"x">>
Y == <<"y">>

\* the archive a download yields in SpecPipe
PipeArchives == { Archive(<<Good(<<X>>)>>) }

\* ------------------------------------------------------------------------
\* start_download and cancel (consumer context)
\* ------------------------------------------------------------------------

\* A download thread.  url, outPath: the lambda's captures.  total, ticks:
\* the transfer's size (0: unknown) and the polls made.  archive: what the
\* downloaded file holds.  counted, idx, doneCount, written: pass 1's
\* result, the entry pass 2 is at, its doneCount, the paths it wrote
\* headers for.  The rest records history: want = the extract_after it was
\* started with, res = what curl_easy_perform returned, cancelReq = Cancel
\* was clicked during its transfer, ran = it entered pass 1, ok = what
\* extract_archive_to_dir returned (1/-1), last = the phase ("t" transfer,
\* "x" extraction) and value of the last progress update of this thread
\* that the consumer applied, cancelSince = Cancel was clicked after
\* start_download started it and before its transfer returned, flagAtStart
\* = gCancel was set when start_download started it (kept until its
\* transfer returns).
IdleWorker ==
    [pc |-> "idle", url |-> <<>>, outPath |-> [dir |-> EmptyPath, file |-> <<>>],
     total |-> 0, ticks |-> 0, archive |-> NoArchive, counted |-> 0, idx |-> 0,
     doneCount |-> 0, written |-> {}, want |-> FALSE, res |-> "none",
     cancelReq |-> FALSE, ran |-> FALSE, ok |-> 0, last |-> [k |-> "none", v |-> 0],
     cancelSince |-> FALSE, flagAtStart |-> FALSE]

\* the thread function returns: its stack is gone, what it did stays
Ended(d) ==
    [d EXCEPT !.pc = "end", !.total = 0, !.ticks = 0, !.idx = 0, !.cancelReq = FALSE,
              !.cancelSince = FALSE, !.flagAtStart = FALSE]

\* what an out-of-range gReleases[r_idx].assets[real_idx] may hand back
GarbageName == <<"?">>

\* pick_output_dir() returned "" (dialog dismissed)
NoDir == EmptyPath

\* start_download without the gCancel = false of line 775
start_download_KeepsCancel(extract_after, w, dir) ==
    LET r_idx == gReleaseValue
        a_row == gAssetsValue
        real_idx == IF gAssetIndexMap # <<>> THEN gAssetIndexMap[a_row] ELSE a_row - 1
        inRange == /\ r_idx < Len(gReleases)
                   /\ real_idx >= 0
                   /\ real_idx < Len(gReleases[r_idx + 1].assets)
        name == IF inRange THEN gReleases[r_idx + 1].assets[real_idx + 1].name
                ELSE GarbageName
    IN
    /\ ~crashed
    /\ downloads[w].pc = "idle"
    /\ \A v \in Workers : v < w => downloads[v].pc # "idle"
    /\ IF r_idx < 0 \/ a_row <= 0
       THEN UNCHANGED vars
       ELSE IF gAssetIndexMap # <<>> /\ a_row - 1 >= Len(gAssetIndexMap)
       THEN UNCHANGED vars
       ELSE \/ /\ ~inRange
               /\ crashed' = TRUE
               /\ UNCHANGED <<viewVars, uiVars, flagVars, xferVars, extrVars, gRefreshStage,
                              gUiText, awakeQ, refreshers, downloads, uiSaw>>
            \/ /\ uiSaw' = ReadReleases
               /\ IF dir = NoDir
                  THEN /\ gStatus' = "Cancelled."
                       /\ UNCHANGED <<gProgress, flagVars, downloads>>
                  ELSE /\ gCancel' = gCancel
                       /\ gDoExtract' = extract_after
                       /\ gExtractOk' = 0
                       /\ gExtractErr' = ""
                       /\ gStatus' = IF extract_after THEN "Downloading (then extract)..."
                                     ELSE "Downloading..."
                       /\ gProgress' = 0
                       /\ downloads' = [downloads EXCEPT ![w] =
                              [IdleWorker EXCEPT !.pc = "start", !.url = name,
                                  !.outPath = [dir |-> dir, file |-> name],
                                  !.want = extract_after, !.flagAtStart = gCancel]]
               /\ UNCHANGED <<viewVars, xferVars, extrVars, gRefreshStage, gUiText,
                              awakeQ, refreshers, crashed>>

\* start_download(extract_after); the thread it starts is w, the folder
\* dialog returns dir
start_download(extract_after, w, dir) ==
    LET r_idx == gReleaseValue
        a_row == gAssetsValue
        real_idx == IF gAssetIndexMap # <<>> THEN gAssetIndexMap[a_row] ELSE a_row - 1
        inRange == /\ r_idx < Len(gReleases)
                   /\ real_idx >= 0
                   /\ real_idx < Len(gReleases[r_idx + 1].assets)
        name == IF inRange THEN gReleases[r_idx + 1].assets[real_idx + 1].name
                ELSE GarbageName
    IN
    /\ ~crashed
    /\ downloads[w].pc = "idle"
    /\ \A v \in Workers : v < w => downloads[v].pc # "idle"
    /\ IF r_idx < 0 \/ a_row <= 0
       THEN UNCHANGED vars
       ELSE IF gAssetIndexMap # <<>> /\ a_row - 1 >= Len(gAssetIndexMap)
       THEN UNCHANGED vars
       ELSE \/ /\ ~inRange
               /\ crashed' = TRUE
               /\ UNCHANGED <<viewVars, uiVars, flagVars, xferVars, extrVars, gRefreshStage,
                              gUiText, awakeQ, refreshers, downloads, uiSaw>>
            \/ /\ uiSaw' = ReadReleases
               /\ IF dir = NoDir
                  THEN /\ gStatus' = "Cancelled."
                       /\ UNCHANGED <<gProgress, flagVars, downloads>>
                  ELSE /\ gCancel' = FALSE
                       /\ gDoExtract' = extract_after
                       /\ gExtractOk' = 0
                       /\ gExtractErr' = ""
                       /\ gStatus' = IF extract_after THEN "Downloading (then extract)..."
                                     ELSE "Downloading..."
                       /\ gProgress' = 0
                       /\ downloads' = [downloads EXCEPT ![w] =
                              [IdleWorker EXCEPT !.pc = "start", !.url = name,
                                  !.outPath = [dir |-> dir, file |-> name],
                                  !.want = extract_after, !.flagAtStart = gCancel]]
               /\ UNCHANGED <<viewVars, xferVars, extrVars, gRefreshStage, gUiText,
                              awakeQ, refreshers, crashed>>

on_cancel ==
    /\ ~crashed
    /\ gCancel' = TRUE
    /\ gStatus' = "Cancel requested..."
    /\ downloads' = [w \in Workers |->
          IF downloads[w].pc = "transfer"
          THEN [downloads[w] EXCEPT !.cancelReq = TRUE, !.cancelSince = TRUE]
          ELSE IF downloads[w].pc = "start" THEN [downloads[w] EXCEPT !.cancelSince = TRUE]
          ELSE downloads[w]]
    /\ UNCHANGED <<viewVars, gProgress, gDoExtract, gExtractOk, gExtractErr, xferVars,
                   extrVars, gRefreshStage, gUiText, awakeQ, refreshers, crashed, uiSaw>>

\* ------------------------------------------------------------------------
\* download_file (worker thread w): the transfer
\* ------------------------------------------------------------------------

\* TransferFailed without the Fl::awake(awake_download_done)
TransferFailed_NoPost(w, res) ==
    /\ Len(awakeQ) < MaxQueue
    /\ gLastCurlResult' = res
    /\ awakeQ' = awakeQ
    /\ downloads' = [downloads EXCEPT ![w] = Ended([@ EXCEPT !.res = res])]

\* gLastCurlResult = res; Fl::awake(awake_download_done); and the thread ends
TransferFailed(w, res) ==
    /\ Len(awakeQ) < MaxQueue
    /\ gLastCurlResult' = res
    /\ awakeQ' = Post(awakeQ, "download_done", w, 0)
    /\ downloads' = [downloads EXCEPT ![w] = Ended([@ EXCEPT !.res = res])]

\* curl_easy_init() returns null
W_InitFails(w) ==
    /\ ~crashed
    /\ downloads[w].pc = "start"
    /\ TransferFailed(w, "FAILED_INIT")
    /\ UNCHANGED <<viewVars, uiVars, flagVars, gProgressValue, extrVars, gRefreshStage,
                   gUiText, refreshers, crashed, uiSaw>>

\* fopen(outPath, "wb") returns null
W_OpenFails(w) ==
    /\ ~crashed
    /\ downloads[w].pc = "start"
    /\ TransferFailed(w, "WRITE_ERROR")
    /\ UNCHANGED <<viewVars, uiVars, flagVars, gProgressValue, extrVars, gRefreshStage,
                   gUiText, refreshers, crashed, uiSaw>>

\* curl_easy_perform starts; the response announces total bytes (0: none)
W_Perform(w, total) ==
    /\ ~crashed
    /\ downloads[w].pc = "start"
    /\ downloads' = [downloads EXCEPT ![w].pc = "transfer", ![w].total = total]
    /\ UNCHANGED <<viewVars, uiVars, flagVars, xferVars, extrVars, gRefreshStage,
                   gUiText, awakeQ, refreshers, crashed, uiSaw>>

\* progress_callback(total, now): one more unit has arrived at each call.
\* Returning 1 makes curl_easy_perform return CURLE_ABORTED_BY_CALLBACK.
progress_callback(w) ==
    LET d == downloads[w]
        now == d.ticks + 1
    IN
    /\ ~crashed
    /\ d.pc = "transfer"
    /\ d.ticks < MaxTicks
    /\ IF gCancel
       THEN /\ TransferFailed(w, "ABORTED")
            /\ UNCHANGED gProgressValue
       ELSE /\ downloads' = [downloads EXCEPT ![w].ticks = now]
            /\ IF d.total > 0
               THEN /\ Len(awakeQ) < MaxQueue
                    /\ gProgressValue' = (now * 100) \div d.total
                    /\ awakeQ' = Post(awakeQ, "update_progress", w, 0)
               ELSE UNCHANGED <<gProgressValue, awakeQ>>
            /\ UNCHANGED gLastCurlResult
    /\ UNCHANGED <<viewVars, uiVars, flagVars, extrVars, gRefreshStage,
                   gUiText, refreshers, crashed, uiSaw>>

\* curl_easy_perform returns res on its own; with CURLE_OK the file holds
\* archive a.  Then: if (res == CURLE_OK && gDoExtract.load())
W_Performed(w, res, a) ==
    LET extract == res = "OK" /\ gDoExtract IN
    /\ ~crashed
    /\ downloads[w].pc = "transfer"
    /\ Len(awakeQ) < MaxQueue
    /\ gLastCurlResult' = res
    /\ awakeQ' = Post(awakeQ, "download_done", w, 0)
    /\ downloads' = [downloads EXCEPT ![w] =
          IF extract THEN [@ EXCEPT !.pc = "count", !.res = res, !.archive = a,
                                    !.cancelSince = FALSE, !.flagAtStart = FALSE]
          ELSE Ended([@ EXCEPT !.res = res])]
    /\ UNCHANGED <<viewVars, uiVars, flagVars, gProgressValue, extrVars, gRefreshStage,
                   gUiText, refreshers, crashed, uiSaw>>

\* ------------------------------------------------------------------------
\* download_file (worker thread w): count, then extract
\* ------------------------------------------------------------------------

\* post_status("Counting archive entries..."); gProgress->value(0);
W_CountBegin(w) ==
    /\ ~crashed
    /\ downloads[w].pc = "count"
    /\ Len(awakeQ) < MaxQueue
    /\ gUiText' = "Counting archive entries..."
    /\ awakeQ' = Post(awakeQ, "set_status", w, 0)
    /\ gProgress' = 0
    /\ downloads' = [downloads EXCEPT ![w].pc = "counting", ![w].ran = TRUE]
    /\ UNCHANGED <<viewVars, gStatus, flagVars, xferVars, extrVars, gRefreshStage,
                   refreshers, crashed, uiSaw>>

\* count_archive_entries returns; total > 0 primes the counters
W_Counted(w) ==
    LET total == count_archive_entries(downloads[w].archive) IN
    /\ ~crashed
    /\ downloads[w].pc = "counting"
    /\ IF total > 0
       THEN /\ Len(awakeQ) < MaxQueue
            /\ gExtractTotal' = total
            /\ gExtractDone' = 0
            /\ awakeQ' = Post(awakeQ, "update_extract_progress", w, 0)
       ELSE /\ gExtractTotal' = 0
            /\ UNCHANGED <<gExtractDone, awakeQ>>
    /\ downloads' = [downloads EXCEPT ![w].pc = "counted", ![w].counted = total]
    /\ UNCHANGED <<viewVars, uiVars, flagVars, xferVars, gRefreshStage, gUiText,
                   refreshers, crashed, uiSaw>>

\* count_archive_entries: archive_read_new() returns null, the count is -1
\* whatever the file holds; the caller falls back to gExtractTotal = 0
W_CountInitFails(w) ==
    /\ ~crashed
    /\ downloads[w].pc = "counting"
    /\ gExtractTotal' = 0
    /\ downloads' = [downloads EXCEPT ![w].pc = "counted", ![w].counted = -1]
    /\ UNCHANGED <<viewVars, uiVars, flagVars, xferVars, gExtractDone, gRefreshStage,
                   gUiText, awakeQ, refreshers, crashed, uiSaw>>

\* post_status("Extracting..."); extract_archive_to_dir begins:
\* gExtractDone = 0; Fl::awake(awake_update_extract_progress);
W_ExtractBegin(w) ==
    LET d == downloads[w]
        q == Post(Post(awakeQ, "set_status", w, 0), "update_extract_progress", w, 0)
    IN
    /\ ~crashed
    /\ d.pc = "counted"
    /\ gUiText' = "Extracting..."
    /\ gExtractDone' = 0
    /\ Len(awakeQ) < MaxQueue
    /\ awakeQ' = q
    /\ downloads' = [downloads EXCEPT ![w].pc = "extract", ![w].idx = 1]
    /\ UNCHANGED <<viewVars, uiVars, flagVars, xferVars, gExtractTotal,
                   gRefreshStage, refreshers, crashed, uiSaw>>

\* a header loop body that polls the cancel flag first
ExtractEntry_PollsCancel(base, e) ==
    LET sj == safe_join(base, e.path) IN
    IF gCancel THEN [kind |-> "fail", wrote |-> {}]
    ELSE IF e.path = EmptyPath THEN [kind |-> "skip", wrote |-> {}]
    ELSE IF e.path.root THEN [kind |-> "skip", wrote |-> {}]
    ELSE IF ~sj.ok THEN [kind |-> "throw", wrote |-> {}]
    ELSE IF e.hdr
         THEN [kind |-> IF e.data THEN "done" ELSE "fail", wrote |-> {sj.path}]
         ELSE [kind |-> "done", wrote |-> {}]

\* a header loop body that gives up when archive_write_header fails
ExtractEntry_HeaderFailureFatal(base, e) ==
    LET sj == safe_join(base, e.path) IN
    IF e.path = EmptyPath THEN [kind |-> "skip", wrote |-> {}]
    ELSE IF e.path.root THEN [kind |-> "skip", wrote |-> {}]
    ELSE IF ~sj.ok THEN [kind |-> "throw", wrote |-> {}]
    ELSE IF e.hdr
         THEN [kind |-> IF e.data THEN "done" ELSE "fail", wrote |-> {sj.path}]
         ELSE [kind |-> "fail", wrote |-> {}]

\* One round of the header loop for entry e under destination base:
\* "skip" (continue before the join), "throw" (safe_join throws), "fail"
\* (copy_archive_data fails: return false), "done" (the entry is finished
\* and counted).  path: where archive_write_header created something.
ExtractEntry(base, e) ==
    LET sj == safe_join(base, e.path) IN
    IF e.path = EmptyPath THEN [kind |-> "skip", wrote |-> {}]
    ELSE IF e.path.root THEN [kind |-> "skip", wrote |-> {}]
    ELSE IF ~sj.ok THEN [kind |-> "throw", wrote |-> {}]
    ELSE IF e.hdr
         THEN [kind |-> IF e.data THEN "done" ELSE "fail", wrote |-> {sj.path}]
         ELSE [kind |-> "done", wrote |-> {}]

\* extract_archive_to_dir(archive a, outDir base) run from entry i on, wrote
\* being what it has written so far: its return value (1 true, -1 false)
\* and the paths written
RECURSIVE extract_archive_to_dir(_, _, _, _)
extract_archive_to_dir(base, a, i, wrote) ==
    IF ~a.open THEN [ok |-> -1, wrote |-> wrote]
    ELSE IF i > Len(a.entries)
    THEN [ok |-> IF a.tail = "eof" THEN 1 ELSE -1, wrote |-> wrote]
    ELSE LET r == ExtractEntry(base, a.entries[i]) IN
         IF r.kind \in {"throw", "fail"} THEN [ok |-> -1, wrote |-> wrote \cup r.wrote]
         ELSE extract_archive_to_dir(base, a, i + 1, wrote \cup r.wrote)

\* if (extract_archive_to_dir(...)) gExtractOk = 1; else { gExtractOk = -1;
\* gExtractErr = err; } Fl::awake(awake_extract_done);
ExtractReturns(w, ok, err, wrote) ==
    /\ Len(awakeQ) < MaxQueue
    /\ gExtractOk' = IF ok THEN 1 ELSE -1
    /\ gExtractErr' = IF ok THEN gExtractErr ELSE err
    /\ awakeQ' = Post(awakeQ, "extract_done", w, 0)
    /\ downloads' = [downloads EXCEPT ![w] =
          Ended([@ EXCEPT !.ok = IF ok THEN 1 ELSE -1, !.written = @ \cup wrote])]

\* archive_read_open_filename fails: return false
W_OpenArchiveFails(w) ==
    /\ ~crashed
    /\ downloads[w].pc = "extract"
    /\ ~downloads[w].archive.open
    /\ ExtractReturns(w, FALSE, "open archive failed", {})
    /\ UNCHANGED <<viewVars, uiVars, gCancel, gDoExtract, xferVars, extrVars,
                   gRefreshStage, gUiText, refreshers, crashed, uiSaw>>

\* archive_read_next_header returns ARCHIVE_OK: the loop body for one entry
W_Entry(w) ==
    LET d == downloads[w]
        r == ExtractEntry(ExtractDirOf(d.outPath), d.archive.entries[d.idx])
    IN
    /\ ~crashed
    /\ d.pc = "extract"
    /\ d.archive.open
    /\ d.idx <= Len(d.archive.entries)
    /\ CASE r.kind = "skip" ->
              /\ downloads' = [downloads EXCEPT ![w].idx = d.idx + 1]
              /\ UNCHANGED <<gExtractOk, gExtractErr, gExtractDone, awakeQ>>
         [] r.kind = "throw" ->
              /\ ExtractReturns(w, FALSE, "Blocked path traversal in archive entry", r.wrote)
              /\ UNCHANGED gExtractDone
         [] r.kind = "fail" ->
              /\ ExtractReturns(w, FALSE, "extract data failed", r.wrote)
              /\ UNCHANGED gExtractDone
         [] r.kind = "done" ->
              /\ Len(awakeQ) < MaxQueue
              /\ gExtractDone' = d.doneCount + 1
              /\ awakeQ' = Post(awakeQ, "update_extract_progress", w, d.doneCount + 1)
              /\ downloads' = [downloads EXCEPT ![w].idx = d.idx + 1,
                                                ![w].doneCount = d.doneCount + 1,
                                                ![w].written = @ \cup r.wrote]
              /\ UNCHANGED <<gExtractOk, gExtractErr>>
    /\ UNCHANGED <<viewVars, uiVars, gCancel, gDoExtract, xferVars, gExtractTotal,
                   gRefreshStage, gUiText, refreshers, crashed, uiSaw>>

\* archive_read_next_header returns something else: the loop ends
W_ExtractEnd(w) ==
    LET d == downloads[w] IN
    /\ ~crashed
    /\ d.pc = "extract"
    /\ d.archive.open
    /\ d.idx > Len(d.archive.entries)
    /\ ExtractReturns(w, d.archive.tail = "eof", "read header failed", {})
    /\ UNCHANGED <<viewVars, uiVars, gCancel, gDoExtract, xferVars, extrVars,
                   gRefreshStage, gUiText, refreshers, crashed, uiSaw>>

\* ------------------------------------------------------------------------
\* The handlers the consumer runs for the download thread's posts
\* ------------------------------------------------------------------------

Handling(h) == awakeQ # <<>> /\ Head(awakeQ).h = h

awake_download_done ==
    /\ ~crashed
    /\ Handling("download_done")
    /\ awakeQ' = Tail(awakeQ)
    /\ gStatus' = IF gLastCurlResult = "OK" THEN "Download complete."
                  ELSE "Download failed or cancelled."
    /\ gProgress' = 0
    /\ UNCHANGED <<viewVars, flagVars, xferVars, extrVars, gRefreshStage, gUiText,
                   refreshers, downloads, crashed, uiSaw>>

awake_update_progress ==
    /\ ~crashed
    /\ Handling("update_progress")
    /\ awakeQ' = Tail(awakeQ)
    /\ gProgress' = gProgressValue
    /\ downloads' = [downloads EXCEPT ![Head(awakeQ).op].last =
                                          [k |-> "t", v |-> gProgressValue]]
    /\ UNCHANGED <<viewVars, gStatus, flagVars, xferVars, extrVars, gRefreshStage, gUiText,
                   refreshers, crashed, uiSaw>>

\* the value awake_update_extract_progress computes
ExtractPercent ==
    IF gExtractTotal <= 0 THEN 0 ELSE (gExtractDone * 100) \div gExtractTotal

awake_update_extract_progress ==
    /\ ~crashed
    /\ Handling("update_extract_progress")
    /\ awakeQ' = Tail(awakeQ)
    /\ gProgress' = ExtractPercent
    /\ downloads' = [downloads EXCEPT ![Head(awakeQ).op].last =
                                          [k |-> "x", v |-> ExtractPercent]]
    /\ UNCHANGED <<viewVars, gStatus, flagVars, xferVars, extrVars, gRefreshStage, gUiText,
                   refreshers, crashed, uiSaw>>

awake_set_status ==
    /\ ~crashed
    /\ Handling("set_status")
    /\ awakeQ' = Tail(awakeQ)
    /\ gStatus' = gUiText
    /\ UNCHANGED <<viewVars, gProgress, flagVars, xferVars, extrVars, gRefreshStage, gUiText,
                   refreshers, downloads, crashed, uiSaw>>

awake_extract_done ==
    /\ ~crashed
    /\ Handling("extract_done")
    /\ awakeQ' = Tail(awakeQ)
    /\ gStatus' = IF gExtractOk = 1 THEN "Extract complete."
                  ELSE IF gExtractOk = -1 THEN "Extract failed: " \o gExtractErr
                  ELSE gStatus
    /\ UNCHANGED <<viewVars, gProgress, flagVars, xferVars, extrVars, gRefreshStage, gUiText,
                   refreshers, downloads, crashed, uiSaw>>

\* ------------------------------------------------------------------------
\* Initial states
\* ------------------------------------------------------------------------

\* the globals' initializers and the widgets as main() builds them
Init ==
    /\ gReleases = <<>>
    /\ gFilters = NoFilters
    /\ gAssetIndexMap = <<>>
    /\ gReleaseItems = 0
    /\ gReleaseValue = -1
    /\ gAssetsItems = <<>>
    /\ gAssetsValue = 0
    /\ gStatus = "Ready."
    /\ gProgress = 0
    /\ gCancel = FALSE
    /\ gLastCurlResult = "OK"
    /\ gProgressValue = 0
    /\ gRefreshStage = 0
    /\ gDoExtract = FALSE
    /\ gExtractOk = 0
    /\ gExtractErr = ""
    /\ gExtractTotal = 0
    /\ gExtractDone = 0
    /\ gUiText = ""
    /\ awakeQ = <<>>
    /\ refreshers = [r \in Refreshers |-> IdleRefresher]
    /\ downloads = [w \in Workers |-> IdleWorker]
    /\ crashed = FALSE
    /\ uiSaw = [val |-> <<>>, inflight |-> {}]

\* The state once the first refresh has loaded payload p and the consumer
\* has run awake_refresh_done: release 0 selected, its assets listed
\* unfiltered, row `row` clicked.
Loaded(p, row) ==
    LET rels == Decoded(p)
        view == AssetLoop(rels[1].assets, NoFilters, 0, <<<<>>, <<>>>>)
    IN
    /\ gReleases = rels
    /\ gFilters = NoFilters
    /\ gAssetIndexMap = view[2]
    /\ gReleaseItems = Len(rels)
    /\ gReleaseValue = 0
    /\ gAssetsItems = view[1]
    /\ gAssetsValue = row
    /\ gStatus = "Releases loaded."
    /\ gProgress = 0
    /\ gCancel = FALSE
    /\ gLastCurlResult = "OK"
    /\ gProgressValue = 0
    /\ gRefreshStage = 3
    /\ gDoExtract = FALSE
    /\ gExtractOk = 0
    /\ gExtractErr = ""
    /\ gExtractTotal = 0
    /\ gExtractDone = 0
    /\ gUiText = ""
    /\ awakeQ = <<>>
    /\ refreshers = [r \in Refreshers |->
          IF r = 1 THEN [pc |-> "done", data |-> p, idx |-> Len(p.rels),
                         before |-> <<>>, stage |-> 3]
          ELSE IdleRefresher]
    /\ downloads = [w \in Workers |-> IdleWorker]
    /\ crashed = FALSE
    /\ uiSaw = [val |-> rels, inflight |-> {}]

\* ------------------------------------------------------------------------
\* SpecFilter: the filter engine over every selection
\* ------------------------------------------------------------------------

FieldVals == [arch |-> ArchVals, mrt |-> MRTVals, exc |-> EXCVals, crt |-> CRTVals,
              rt |-> RTVals]
Fields == DOMAIN FieldVals

\* an asset name that spells out the attributes i
NameOf(i) ==
    (CASE i.arch = "I686" -> <<"i686", "-">> [] i.arch = "X86_64" -> <<"x86_64", "-">>
       [] OTHER -> <<>>)
    \o <<"rel">>
    \o (CASE i.mrt = "Posix" -> <<"-", "posix">> [] i.mrt = "Win32" -> <<"-", "win32">>
          [] i.mrt = "Mcf" -> <<"-", "mcf">> [] OTHER -> <<>>)
    \o (CASE i.exc = "Seh" -> <<"-", "seh">> [] i.exc = "Dwarf" -> <<"-", "dwarf">>
          [] OTHER -> <<>>)
    \o (CASE i.crt = "Ucrt" -> <<"-", "ucrt">> [] i.crt = "Msvcrt" -> <<"-", "msvcrt">>
          [] OTHER -> <<>>)
    \o (CASE i.rt = "V13" -> <<"-", "rt_v13">> [] OTHER -> <<>>)
    \o <<"-", "rev1", ".", "7z">>

\* the asset lists of the one release in SpecFilter: none, any one asset,
\* any two of three
FilterNameLists ==
    {<<>>} \cup {<<NameOf(i)>> : i \in AssetInfo}
           \cup {<<a, b>> : a, b \in {NameA, NameB, NameC}}

InitFilter ==
    \E names \in FilterNameLists :
        Loaded(Payload(<<Rel("v1", names), Rel("v0", <<NameC>>)>>), 0)

NextFilter ==
    \/ \E f \in Fields : \E v \in FieldVals[f] :
          on_filters_changed([gFilters EXCEPT ![f] = v])
    \/ on_reset_filters
    \/ \E i \in 0..1 : on_release_changed(i)

SpecFilter == InitFilter /\ [][NextFilter]_vars

\* ------------------------------------------------------------------------
\* SpecView: refresh threads against the consumer's view of the collection
\* ------------------------------------------------------------------------

\* the filter widgets the user touches in SpecView
ViewFields == {"arch", "rt"}

\* the folder the dialog returns
OutDir == MkPath(TRUE, <<<<"d">>>>)

NextView ==
    \/ \E r \in Refreshers : on_refresh(r)
    \/ \E r \in Refreshers : R_FetchFails(r)
    \/ \E r \in Refreshers : \E p \in Payloads : R_Fetched(r, p)
    \/ \E r \in Refreshers : R_ParseBegin(r)
    \/ \E r \in Refreshers : R_ParseRelease(r)
    \/ awake_refresh_done
    \/ \E i \in 0..(gReleaseItems - 1) : on_release_changed(i)
    \/ \E f \in ViewFields : \E v \in FieldVals[f] :
          on_filters_changed([gFilters EXCEPT ![f] = v])
    \/ on_reset_filters
    \/ \E k \in 1..Len(gAssetsItems) : SelectRow(k)
    \/ \E e \in BOOLEAN : \E dir \in {NoDir, OutDir} : start_download(e, 1, dir)

SpecView == Init /\ [][NextView]_vars

\* ------------------------------------------------------------------------
\* SpecPipe: download threads, the posted handlers and Cancel
\* ------------------------------------------------------------------------

\* releases are loaded and the first asset's row is clicked
InitPipe == Loaded(Payload(<<Rel("v2", <<NameA, NameB>>), Rel("v1", <<NameC>>)>>), 1)

NextPipe ==
    \/ \E e \in BOOLEAN : \E w \in Workers : \E dir \in {NoDir, OutDir} :
          start_download(e, w, dir)
    \/ on_cancel
    \/ \E w \in Workers : W_InitFails(w)
    \/ \E w \in Workers : W_OpenFails(w)
    \/ \E w \in Workers : \E total \in {0, MaxTicks} : W_Perform(w, total)
    \/ \E w \in Workers : progress_callback(w)
    \/ \E w \in Workers : \E res \in {"OK", "ERR"} : \E a \in PipeArchives :
          W_Performed(w, res, a)
    \/ \E w \in Workers : W_CountBegin(w)
    \/ \E w \in Workers : W_Counted(w)
    \/ \E w \in Workers : W_ExtractBegin(w)
    \/ \E w \in Workers : W_Entry(w)
    \/ \E w \in Workers : W_ExtractEnd(w)
    \/ awake_download_done
    \/ awake_update_progress
    \/ awake_update_extract_progress
    \/ awake_set_status
    \/ awake_extract_done

SpecPipe == InitPipe /\ [][NextPipe]_vars

\* ------------------------------------------------------------------------
\* SpecExtract: one download thread over every kind of archive
\* ------------------------------------------------------------------------

\* the one release offers rel.zip, which extracts into <dir>/rel
InitExtract == Loaded(Payload(<<Rel("v1", <<NameC>>)>>), 1)

\* a name next to the extraction folder that begins with the folder's name
Sibling == Stem(NameC) \o X

\* what the downloaded file may hold
ExtractArchives ==
    { Archive(<<Good(<<X>>), Good(<<X, Y>>)>>),
      Archive(<<Good(<<X, Dot, Y>>), Good(<<X, DotDot, Y>>)>>),
      Archive(<<Entry(MkPath(TRUE, <<X>>), TRUE, TRUE), Good(<<Y>>)>>),
      Archive(<<Entry(EmptyPath, TRUE, TRUE), Good(<<Y>>)>>),
      Archive(<<Good(<<X>>), Good(<<DotDot, Y>>), Good(<<Y>>)>>),
      Archive(<<Good(<<DotDot, Sibling, X>>), Good(<<Y>>)>>),
      Archive(<<Entry(MkPath(FALSE, <<X>>), FALSE, TRUE), Good(<<Y>>)>>),
      Archive(<<Entry(MkPath(FALSE, <<X>>), TRUE, FALSE), Good(<<Y>>)>>),
      Archive(<<>>),
      [open |-> TRUE, entries |-> <<Good(<<X>>)>>, tail |-> "err"],
      NoArchive }

NextExtract ==
    \/ \E e \in BOOLEAN : start_download(e, 1, OutDir)
    \/ on_cancel
    \/ W_InitFails(1)
    \/ W_OpenFails(1)
    \/ \E total \in {0, MaxTicks} : W_Perform(1, total)
    \/ progress_callback(1)
    \/ \E res \in {"OK", "ERR"} : \E a \in ExtractArchives : W_Performed(1, res, a)
    \/ W_CountBegin(1)
    \/ W_Counted(1)
    \/ W_CountInitFails(1)
    \/ W_ExtractBegin(1)
    \/ W_OpenArchiveFails(1)
    \/ W_Entry(1)
    \/ W_ExtractEnd(1)
    \/ awake_download_done
    \/ awake_update_progress
    \/ awake_update_extract_progress
    \/ awake_set_status
    \/ awake_extract_done

SpecExtract == InitExtract /\ [][NextExtract]_vars

\* ------------------------------------------------------------------------
\* SpecCount: Download+Extract clicked up to MaxDownloads times, pass 1
\* failing or not
\* ------------------------------------------------------------------------

NextCount ==
    \/ \E w \in Workers : start_download(TRUE, w, OutDir)
    \/ \E w \in Workers : W_Perform(w, 0)
    \/ \E w \in Workers : \E a \in PipeArchives : W_Performed(w, "OK", a)
    \/ \E w \in Workers : W_CountBegin(w)
    \/ \E w \in Workers : W_Counted(w)
    \/ \E w \in Workers : W_CountInitFails(w)
    \/ \E w \in Workers : W_ExtractBegin(w)
    \/ \E w \in Workers : W_Entry(w)
    \/ \E w \in Workers : W_ExtractEnd(w)
    \/ awake_download_done
    \/ awake_update_extract_progress
    \/ awake_set_status
    \/ awake_extract_done

SpecCount == InitPipe /\ [][NextCount]_vars

\* ------------------------------------------------------------------------
\* SpecParse: one refresh that decodes an asset of any name
\* ------------------------------------------------------------------------

\* the longest asset name served
MaxNameLen == 4

\* what the names are made of: the two architecture words, the hyphen and
\* one other word
ArchSymbols == {"i686", "x86_64", "-", "a"}

\* every non-empty name of up to MaxNameLen symbols
ParseNames == UNION {[1..n -> ArchSymbols] : n \in 1..MaxNameLen}

\* the most words in a name built from the attribute words
MaxTokens == 3

\* the words parse_asset_name looks for, one architecture word and one
\* other word; and what may stand between two words
TokenWords == {"posix", "win32", "mcf", "seh", "dwarf", "ucrt", "msvcrt", "rt_v13",
               "x86_64", "a"}
Separators == {"-", "."}

\* the names of len symbols in which separators and words alternate
RECURSIVE Alternating(_, _)
Alternating(len, sepNext) ==
    IF len = 0 THEN {<<>>}
    ELSE {<<x>> \o t : x \in (IF sepNext THEN Separators ELSE TokenWords),
                       t \in Alternating(len - 1, ~sepNext)}

\* every such name of up to MaxTokens words, with or without a separator
\* in front and behind
TokenNames ==
    UNION ({Alternating(len, TRUE) : len \in 1..(2 * MaxTokens + 1)}
           \cup {Alternating(len, FALSE) : len \in 1..(2 * MaxTokens)})

\* fetch_releases_json returns a body with one release that offers one
\* asset, of any of these names
R_FetchedOneAsset(r) ==
    /\ refreshers[r].pc = "fetch"
    /\ \E n \in ParseNames \cup TokenNames : R_Fetched(r, Payload(<<Rel("v1", <<n>>)>>))

NextParse ==
    \/ on_refresh(1)
    \/ R_FetchFails(1)
    \/ R_FetchedOneAsset(1)
    \/ R_ParseBegin(1)
    \/ R_ParseRelease(1)
    \/ awake_refresh_done

SpecParse == Init /\ [][NextParse]_vars

\* ------------------------------------------------------------------------
\* Claims about the view (SpecFilter, SpecView)
\* ------------------------------------------------------------------------

\* the assets of the release gRelease shows as selected
SelectedAssets ==
    IF gReleaseValue >= 0 /\ gReleaseValue < Len(gReleases)
    THEN gReleases[gReleaseValue + 1].assets ELSE <<>>

\* the selection leaves the asset in: field by field, Any or equal
Admits(F, a) == \A f \in Fields : F[f] = "Any" \/ F[f] = a.info[f]

\* C2: asset_matches is true of an asset exactly when every one of the five
\* fields of the selection is Any or equals the asset's parsed value, and
\* the filtered view holds exactly the indices of the matching assets (and
\* the list their names).
C2_FilteredViewIsExactlyTheMatches ==
    LET assets == SelectedAssets IN
    /\ \A i \in 1..Len(assets) : asset_matches(assets[i], gFilters) <=> Admits(gFilters, assets[i])
    /\ \A k \in 1..Len(gAssetIndexMap) : gAssetIndexMap[k] \in 0..(Len(assets) - 1)
    /\ \A i \in 0..(Len(assets) - 1) :
          Admits(gFilters, assets[i + 1])
             <=> Cardinality({k \in 1..Len(gAssetIndexMap) : gAssetIndexMap[k] = i}) = 1
    /\ Len(gAssetIndexMap) = Cardinality({i \in 1..Len(assets) : Admits(gFilters, assets[i])})
    /\ Len(gAssetsItems) = Len(gAssetIndexMap)
    /\ \A k \in 1..Len(gAssetIndexMap) : gAssetsItems[k] = assets[gAssetIndexMap[k] + 1].name

\* C2 witness: a narrowed selection that keeps one asset of the release and
\* drops another
C2_Witness ==
    /\ gFilters # NoFilters
    /\ gAssetIndexMap # <<>>
    /\ Len(gAssetIndexMap) < Len(SelectedAssets)

\* C5: the filtered index is strictly increasing and each element is an
\* index into the assets of the selected release of the current collection.
C5_FilteredIndexValid ==
    /\ \A k \in 1..(Len(gAssetIndexMap) - 1) : gAssetIndexMap[k] < gAssetIndexMap[k + 1]
    /\ \A k \in 1..Len(gAssetIndexMap) :
          /\ gReleaseValue >= 0
          /\ gReleaseValue < Len(gReleases)
          /\ gAssetIndexMap[k] >= 0
          /\ gAssetIndexMap[k] < Len(gReleases[gReleaseValue + 1].assets)

\* the complete collections refresh thread r accounts for: the one it found
\* when it started and, once fetched, the one its body decodes to
CompleteSets(r) ==
    {refreshers[r].before}
    \cup (IF refreshers[r].pc \notin {"idle", "fetch"} /\ Decodes(refreshers[r].data)
          THEN {Decoded(refreshers[r].data)} ELSE {})

\* C6: whenever the consumer reads the collection while a refresh is in
\* flight, it gets a complete set: the one from before a refresh or the one
\* a refresh decodes, never an intermediate.
C6_ReadsSeeCompleteSets ==
    uiSaw.inflight # {} =>
        uiSaw.val \in UNION {CompleteSets(r) : r \in {q \in Refreshers : refreshers[q].pc # "idle"}}

\* C7: the step that ends a refresh in a network error (stage 1) or a decode
\* error (stage 2) leaves the collection as it was when that refresh started.
C7_FailedRefreshKeepsCollection ==
    [][\A r \in Refreshers :
          (/\ refreshers[r].pc # "done"
           /\ refreshers'[r].pc = "done"
           /\ refreshers'[r].stage \in {1, 2}) => gReleases' = refreshers[r].before]_vars

\* ------------------------------------------------------------------------
\* Claims about extraction (SpecExtract)
\* ------------------------------------------------------------------------

\* p is dest itself or a descendant of it, filename by filename
Within(dest, p) ==
    /\ p.root = dest.root
    /\ Len(p.comps) >= Len(dest.comps)
    /\ SubSeq(p.comps, 1, Len(dest.comps)) = dest.comps

\* the destination root of thread w, normalized
DestOf(w) == lexically_normal(ExtractDirOf(downloads[w].outPath))

\* the normalized join of w's destination and the entry path rel leaves it
Escapes(w, rel) ==
    ~Within(DestOf(w), lexically_normal(PathJoin(ExtractDirOf(downloads[w].outPath), rel)))

\* C1: whatever the archive holds, every location extract_archive_to_dir
\* writes at is the destination or a descendant of it, decided filename by
\* filename on the normalized join.
C1_WritesStayUnderDest ==
    \A w \in Workers : \A p \in downloads[w].written : Within(DestOf(w), p)

\* C8: a round of the header loop on an entry whose joined path escapes the
\* destination ends the extraction in Failed at that entry; a round on an
\* entry with an absolute or an empty path writes nothing, reports nothing
\* and moves to the next entry.
C8_EscapeFailsAbsoluteSkips ==
    [][\A w \in Workers :
          LET d == downloads[w]
              e == d.archive.entries[d.idx]
          IN (/\ d.pc = "extract"
              /\ d.archive.open
              /\ d.idx <= Len(d.archive.entries)
              /\ (downloads'[w].pc # "extract" \/ downloads'[w].idx # d.idx))
             => IF e.path = EmptyPath \/ e.path.root
                THEN /\ downloads'[w] = [d EXCEPT !.idx = d.idx + 1]
                     /\ gExtractOk' = gExtractOk
                ELSE Escapes(w, e.path)
                        => /\ downloads'[w].pc = "end"
                           /\ downloads'[w].ok = -1
                           /\ gExtractOk' = -1]_vars

\* the archive reads to its end, every entry is named and writable, and no
\* relative entry leaves the destination of w
Extractable(w, a) ==
    /\ a.open
    /\ a.tail = "eof"
    /\ \A i \in 1..Len(a.entries) :
          LET e == a.entries[i] IN
          /\ e.hdr
          /\ e.data
          /\ e.path # EmptyPath
          /\ e.path.root \/ ~Escapes(w, e.path)

\* C9: for a valid archive of N entries pass 1 returns N, pass 2 completes
\* N entries (one counter increment and one update each), and the last
\* update the consumer applies shows 100%.
C9_CountedEqualsCompleted ==
    \A w \in Workers :
        LET d == downloads[w]
            N == Len(d.archive.entries)
        IN (d.pc = "end" /\ d.ran /\ Extractable(w, d.archive))
           => /\ d.counted = N
              /\ d.doneCount = N
              /\ (awakeQ = <<>> /\ N > 0) => d.last = [k |-> "x", v |-> 100]

\* ------------------------------------------------------------------------
\* Claims about overlapping operations (SpecPipe)
\* ------------------------------------------------------------------------

\* C3: after Cancel was clicked during the transfer of w, no poll of that
\* transfer goes on to publish progress: the next poll aborts it.
C3_CancelAbortsAtNextPoll ==
    [][\A w \in Workers :
          (/\ downloads[w].pc = "transfer"
           /\ downloads[w].cancelReq
           /\ downloads'[w].pc = "transfer") => downloads'[w].ticks = downloads[w].ticks]_vars

\* C4: a thread runs count-then-extract exactly when it was started with
\* extraction requested and its own transfer returned CURLE_OK.
C4_ExtractIffRequestedAndOk ==
    \A w \in Workers :
        LET d == downloads[w] IN
        /\ d.ran => (d.want /\ d.res = "OK")
        /\ (d.pc = "end" /\ d.want /\ d.res = "OK") => d.ran

\* C10: within the transfer and within the extraction of one thread, each
\* progress value the consumer applies is at least the one it applied
\* before for the same phase of that thread.
C10_ProgressNonDecreasing ==
    [][\A w \in Workers :
          LET a == downloads[w].last
              b == downloads'[w].last
          IN (awakeQ # <<>> /\ awakeQ' = Tail(awakeQ) /\ Head(awakeQ).op = w
              /\ Head(awakeQ).h \in {"update_progress", "update_extract_progress"}
              /\ a.k = b.k)
             => b.v >= a.v]_vars

\* ------------------------------------------------------------------------
\* Claims about the status and the posted events
\* ------------------------------------------------------------------------

\* the texts that say an operation is still going on
InProgressTexts ==
    {"Fetching releases...", "Downloading...", "Downloading (then extract)...",
     "Counting archive entries...", "Extracting...", "Cancel requested..."}

\* no refresh or download thread is running and nothing is posted
Quiescent ==
    /\ \A r \in Refreshers : refreshers[r].pc \in {"idle", "done"}
    /\ \A w \in Workers : downloads[w].pc \in {"idle", "end"}
    /\ awakeQ = <<>>

\* C11: whenever no operation is in flight and every posted event has been
\* handled, the status label shows a terminal text, not an in-progress one.
C11_QuiescentStatusIsTerminal == Quiescent => gStatus \notin InProgressTexts

\* the events a step appends to the queue
Posted ==
    IF Len(awakeQ') > Len(awakeQ)
    THEN SubSeq(awakeQ', Len(awakeQ) + 1, Len(awakeQ')) ELSE <<>>

\* how many events of handler h thread w posts in a step
PostedBy(w, h) ==
    Cardinality({i \in 1..Len(Posted) : Posted[i].h = h /\ Posted[i].op = w})

\* before curl_easy_perform has returned (or been given up)
InTransferPhase(pc) == pc \in {"start", "transfer"}

\* C12: a download thread posts its one download-completion event in the
\* step that ends its transfer phase, whatever the path (init failure, open
\* failure, transport error, abort, success), and in no other step; its
\* progress events are posted only while the transfer goes on, so before
\* the completion; a failed fopen records a failure and ends the thread
\* with no transfer and no extraction.
C12_OneCompletionAfterProgress ==
    [][\A w \in Workers :
          LET d == downloads[w]
              e == downloads'[w]
              leaves == InTransferPhase(d.pc) /\ ~InTransferPhase(e.pc)
          IN /\ leaves => (PostedBy(w, "download_done") = 1 /\ Posted[Len(Posted)].op = w)
             /\ ~leaves => PostedBy(w, "download_done") = 0
             /\ d.pc \notin {"idle", "start", "transfer"} => ~InTransferPhase(e.pc)
             /\ PostedBy(w, "update_progress") > 0 => (d.pc = "transfer" /\ e.pc = "transfer")
             /\ (d.pc = "start" /\ e.res = "WRITE_ERROR")
                   => /\ e.pc = "end"
                      /\ ~e.ran
                      /\ gLastCurlResult' # "OK"]_vars

\* C12 witness: one thread has ended on a failed fopen with its completion
\* posted, another after a transfer whose progress the consumer applied
C12_Witness ==
    \E v, w \in Workers :
        /\ downloads[v].pc = "end"
        /\ downloads[v].res = "WRITE_ERROR"
        /\ \E i \in 1..Len(awakeQ) : awakeQ[i] = [h |-> "download_done", op |-> v, n |-> 0]
        /\ downloads[w].pc = "end"
        /\ downloads[w].res = "OK"
        /\ downloads[w].last.k = "t"

\* download thread w takes a step of download_file
DownloadThreadStep(w) ==
    /\ downloads[w].pc \notin {"idle", "end"}
    /\ \/ downloads'[w].pc # downloads[w].pc
       \/ downloads'[w].ticks # downloads[w].ticks
       \/ downloads'[w].idx # downloads[w].idx

\* refresh thread r takes a step of its lambda
RefreshThreadStep(r) ==
    /\ refreshers[r].pc \notin {"idle", "done"}
    /\ refreshers'[r] # refreshers[r]

\* C13: no step of a background thread (fetch, transfer, count, extract)
\* changes the status label or the progress indicator; they change only in
\* steps of the consumer.
C13_OnlyConsumerWritesUi ==
    [][((\E w \in Workers : DownloadThreadStep(w)) \/ (\E r \in Refreshers : RefreshThreadStep(r)))
          => (gStatus' = gStatus /\ gProgress' = gProgress)]_vars

\* the download threads that have been started and have not returned
InFlight == {w \in Workers : downloads[w].pc \notin {"idle", "end"}}

\* C14: at most one download thread is in flight at any moment, so each of
\* gProgressValue, gLastCurlResult, gExtractDone, gExtractTotal and
\* gExtractOk has at most one thread that may write it.
C14_AtMostOneWorkerInFlight == Cardinality(InFlight) <= 1

\* thread w is inside the extract block of download_file
Extracting(w) == downloads[w].pc \in {"count", "counting", "counted", "extract"}

\* C15: a step that sets the cancel flag changes nothing of a thread that
\* is extracting nor of the extraction globals, and an extraction that has
\* returned has the outcome and has written the entries that the archive
\* and the destination alone determine, whatever the flag was meanwhile.
C15_ExtractionIgnoresCancel ==
    [][/\ \A w \in Workers :
             (Extracting(w) /\ gCancel' /\ (~gCancel \/ gStatus' # gStatus))
                => /\ downloads'[w] = downloads[w]
                   /\ UNCHANGED <<gExtractOk, gExtractErr, gExtractTotal, gExtractDone>>
       /\ \A w \in Workers :
             LET d == downloads'[w]
                 r == extract_archive_to_dir(ExtractDirOf(d.outPath), d.archive, 1, {})
             IN (d.pc = "end" /\ d.ran) => (d.ok = r.ok /\ d.written = r.wrote)]_vars

\* C15 witness: Cancel was clicked after "Extracting..." was shown, and the
\* header loop has since completed an entry and reached the end of the
\* archive
C15_Witness ==
    \E w \in Workers :
        /\ downloads[w].pc = "extract"
        /\ downloads[w].idx > Len(downloads[w].archive.entries)
        /\ downloads[w].written # {}
        /\ gCancel
        /\ gStatus = "Cancel requested..."
        /\ gExtractDone = downloads[w].doneCount
        /\ awakeQ = <<>>

\* ------------------------------------------------------------------------
\* Claims about the filter engine as a function (SpecFilter)
\* ------------------------------------------------------------------------

\* the filtered index of an asset list under selection F
FilteredIndex(assets, F) == AssetLoop(assets, F, 0, <<<<>>, <<>>>>)[2]

\* s can be obtained from t by deleting elements
RECURSIVE IsSubsequence(_, _)
IsSubsequence(s, t) ==
    IF s = <<>> THEN TRUE
    ELSE IF t = <<>> THEN FALSE
    ELSE IF Head(s) = Head(t) THEN IsSubsequence(Tail(s), Tail(t))
    ELSE IsSubsequence(s, Tail(t))

\* the selections that narrow F in exactly one field, from Any to a value
Narrowings(F) ==
    UNION {{[F EXCEPT ![f] = v] : v \in FieldVals[f] \ {"Any"}} :
              f \in {g \in Fields : F[g] = "Any"}}

\* C16: for the asset list shown and the selection in force, every
\* selection that differs only in one field, Any here and concrete there,
\* yields a filtered index that is a subsequence of the current one, so not
\* a longer one.
C16_NarrowingGivesSubsequence ==
    /\ gAssetIndexMap = FilteredIndex(SelectedAssets, gFilters)
    /\ \A G \in Narrowings(gFilters) :
          /\ IsSubsequence(FilteredIndex(SelectedAssets, G), gAssetIndexMap)
          /\ Len(FilteredIndex(SelectedAssets, G)) <= Len(gAssetIndexMap)

\* C16 witness: a selection already narrowed that still shows an asset,
\* one further narrowing that keeps the view and another that shortens it
C16_Witness ==
    /\ gFilters # NoFilters
    /\ gAssetIndexMap # <<>>
    /\ \E G \in Narrowings(gFilters) : FilteredIndex(SelectedAssets, G) = gAssetIndexMap
    /\ \E G \in Narrowings(gFilters) :
          Len(FilteredIndex(SelectedAssets, G)) < Len(gAssetIndexMap)

\* 0, 1, ..., n-1
FullRange(n) == [k \in 1..n |-> k - 1]

\* C17: under the all-Any selection the filtered index of the selected
\* release is 0, 1, ..., n-1 for its n assets (empty for none), both as the
\* filter loop computes it and as the view holds it, after a reset as after
\* any other rebuild; the list shows every asset's name in order.
C17_AllAnyShowsEveryAsset ==
    LET assets == SelectedAssets IN
    /\ FilteredIndex(assets, NoFilters) = FullRange(Len(assets))
    /\ gFilters = NoFilters
          => /\ gAssetIndexMap = FullRange(Len(assets))
             /\ gAssetsItems = [k \in 1..Len(assets) |-> assets[k].name]

\* C17 witness: the list was rebuilt under the all-Any selection for the
\* second release, and shows its asset
C17_Witness ==
    /\ gFilters = NoFilters
    /\ gReleaseValue = 1
    /\ SelectedAssets # <<>>
    /\ gAssetIndexMap = FullRange(Len(SelectedAssets))

\* ------------------------------------------------------------------------
\* Claims about the attribute parser (SpecParse)
\* ------------------------------------------------------------------------

\* every asset the collection holds
AllAssets ==
    UNION {{gReleases[i].assets[k] : k \in 1..Len(gReleases[i].assets)} : i \in 1..Len(gReleases)}

\* C18: the Arch of every decoded asset is decided by the prefix of its
\* name alone: I686 for a name that starts with "i686-", X86_64 for one
\* that starts with "x86_64-", Any for every other name, also when an
\* architecture word occurs further on in the name.
C18_ArchFromPrefixOnly ==
    \A a \in AllAssets :
        /\ a.info = parse_asset_name(a.name)
        /\ StartsWith(a.name, <<"i686", "-">>) => a.info.arch = "I686"
        /\ StartsWith(a.name, <<"x86_64", "-">>) => a.info.arch = "X86_64"
        /\ (~StartsWith(a.name, <<"i686", "-">>) /\ ~StartsWith(a.name, <<"x86_64", "-">>))
              => a.info.arch = "Any"

\* C18 witness: a decoded asset whose name starts with "x86_64-" and goes
\* on with "i686-", parsed as X86_64
C18_Witness ==
    \E a \in AllAssets :
        /\ StartsWith(a.name, <<"x86_64", "-">>)
        /\ Contains(a.name, <<"i686", "-">>)
        /\ a.info.arch = "X86_64"

\* word tok stands in the name between two hyphens
Delimited(name, tok) ==
    \E i \in 1..(Len(name) - 2) :
        name[i] = "-" /\ name[i + 1] = tok /\ name[i + 2] = "-"

\* the value of the first <<word, value>> of order whose word stands
\* hyphen-delimited in the name; Any when none does
FirstOf(name, order) ==
    LET hits == {k \in 1..Len(order) : Delimited(name, order[k][1])} IN
    IF hits = {} THEN "Any"
    ELSE order[CHOOSE k \in hits : \A j \in hits : k <= j][2]

MRTOrder == <<<<"posix", "Posix">>, <<"win32", "Win32">>, <<"mcf", "Mcf">>>>
EXCOrder == <<<<"seh", "Seh">>, <<"dwarf", "Dwarf">>>>
CRTOrder == <<<<"ucrt", "Ucrt">>, <<"msvcrt", "Msvcrt">>>>

\* "-rt_v13-" or "-rt_v13." occurs in the name
HasRtV13(name) ==
    \E i \in 1..(Len(name) - 2) :
        name[i] = "-" /\ name[i + 1] = "rt_v13" /\ name[i + 2] \in {"-", "."}

\* C23: for every decoded asset, ThreadModel, ExceptionModel and CRuntime
\* are each the first word of their own priority list (posix, win32, mcf /
\* seh, dwarf / ucrt, msvcrt) that stands hyphen-delimited in the name, Any
\* when none does; RuntimeVersion is V13 exactly when "-rt_v13-" or
\* "-rt_v13." occurs; no field depends on another, and a name without a
\* recognized prefix or word gives Any in all five fields.
C23_FirstTokenInPriorityOrder ==
    \A a \in AllAssets :
        /\ a.info.mrt = FirstOf(a.name, MRTOrder)
        /\ a.info.exc = FirstOf(a.name, EXCOrder)
        /\ a.info.crt = FirstOf(a.name, CRTOrder)
        /\ a.info.rt = "V13" <=> HasRtV13(a.name)
        /\ a.info.rt \in {"V13", "Any"}
        /\ (/\ ~StartsWith(a.name, <<"i686", "-">>)
            /\ ~StartsWith(a.name, <<"x86_64", "-">>)
            /\ \A k \in 1..3 : ~Delimited(a.name, MRTOrder[k][1])
            /\ \A k \in 1..2 : ~Delimited(a.name, EXCOrder[k][1])
            /\ \A k \in 1..2 : ~Delimited(a.name, CRTOrder[k][1])
            /\ ~HasRtV13(a.name))
              => a.info = NoFilters

\* C23 witness: a decoded asset whose name holds "-win32-" ahead of
\* "-posix-" and then "-seh-", parsed as Posix and Seh with the other
\* fields Any
C23_Witness ==
    \E a \in AllAssets :
        /\ a.name = <<"-", "win32", "-", "posix", "-", "seh", "-">>
        /\ a.info = [NoFilters EXCEPT !.mrt = "Posix", !.exc = "Seh"]

\* ------------------------------------------------------------------------
\* Claims about the selection across refreshes (SpecView)
\* ------------------------------------------------------------------------

\* the consumer handles the event awake_refresh_done
HandlesRefreshDone ==
    /\ awakeQ # <<>>
    /\ Head(awakeQ).h = "refresh_done"
    /\ awakeQ' = Tail(awakeQ)

\* C19: no step of a refresh (the click, the thread, the handling of its
\* completion) and no rebuild for another release changes the filter
\* selection; when the completion of a successful refresh is handled, the
\* list is rebuilt for release 0 filtered with the selection then in force.
C19_SelectionSurvivesRefresh ==
    [][/\ (refreshers' # refreshers \/ HandlesRefreshDone \/ gReleaseValue' # gReleaseValue)
             => gFilters' = gFilters
       /\ (HandlesRefreshDone /\ gRefreshStage = 3 /\ gReleases # <<>>)
             => /\ gReleaseValue' = 0
                /\ gAssetIndexMap' = FilteredIndex(gReleases[1].assets, gFilters)
                /\ \A k \in 1..Len(gAssetIndexMap') :
                      asset_matches(gReleases[1].assets[gAssetIndexMap'[k] + 1], gFilters)]_vars

\* C19 witness: releases are loaded and the list of release 0 shows some of
\* its assets and not others, under a selection that is not all-Any
C19_Witness ==
    /\ gStatus = "Releases loaded."
    /\ gRefreshStage = 3
    /\ gFilters # NoFilters
    /\ gReleaseValue = 0
    /\ gAssetsValue = 0
    /\ gAssetIndexMap # <<>>
    /\ Len(gAssetIndexMap) < Len(SelectedAssets)

\* ------------------------------------------------------------------------
\* Claims about the order of one thread's events (SpecExtract)
\* ------------------------------------------------------------------------

\* the consumer handles a status event of a thread that has a later status
\* event still waiting in the queue
HandlesEarlierStatus ==
    /\ awakeQ # <<>>
    /\ Head(awakeQ).h = "set_status"
    /\ awakeQ' = Tail(awakeQ)
    /\ \E i \in 2..Len(awakeQ) :
          awakeQ[i].h = "set_status" /\ awakeQ[i].op = Head(awakeQ).op

\* C20: each status text a download thread posts is displayed when its
\* event is handled: the first of the two ("Counting archive entries...",
\* posted before "Extracting...") is shown by the first event, not replaced
\* by the text posted later.
C20_StatusShownAsPosted ==
    [][HandlesEarlierStatus => gStatus' = "Counting archive entries..."]_vars

\* ------------------------------------------------------------------------
\* Claims about a failed entry count (SpecCount, SpecExtract)
\* ------------------------------------------------------------------------

\* thread w came out of pass 1 without a positive total
CountUnknown(w) == downloads[w].ran /\ downloads[w].counted <= 0

\* the consumer is about to apply an extraction progress update that a
\* thread with unknown total posted from pass 2
HandlesUnknownProgress ==
    /\ awakeQ # <<>>
    /\ Head(awakeQ).h = "update_extract_progress"
    /\ CountUnknown(Head(awakeQ).op)
    /\ downloads[Head(awakeQ).op].pc \in {"extract", "end"}

\* C21: when pass 1 fails or counts nothing, the total is recorded as 0 and
\* pass 2 still runs; every progress update of that extraction shows 0, not
\* a percentage; and the extraction's outcome is what pass 2 returns for
\* the archive, whatever pass 1 returned.
C21_FailedCountMeansIndeterminate ==
    [][/\ \A w \in Workers :
             (downloads[w].pc = "counting" /\ downloads'[w].pc = "counted"
                 /\ downloads'[w].counted <= 0) => gExtractTotal' = 0
       /\ HandlesUnknownProgress => gProgress' = 0
       /\ \A w \in Workers :
             LET d == downloads'[w]
                 r == extract_archive_to_dir(ExtractDirOf(d.outPath), d.archive, 1, {})
             IN (d.pc = "end" /\ d.ran /\ d.counted <= 0) => d.ok = r.ok]_vars

\* ------------------------------------------------------------------------
\* Claims about the failures of pass 2 (SpecExtract)
\* ------------------------------------------------------------------------

\* thread w's header loop has an entry in hand that gets as far as
\* archive_write_header
AtWritableEntry(w) ==
    LET d == downloads[w] IN
    /\ d.pc = "extract"
    /\ d.archive.open
    /\ d.idx <= Len(d.archive.entries)
    /\ d.archive.entries[d.idx].path # EmptyPath
    /\ ~d.archive.entries[d.idx].path.root
    /\ safe_join(ExtractDirOf(d.outPath), d.archive.entries[d.idx].path).ok

\* thread w's header loop has read every header archive_read_next_header
\* gave with ARCHIVE_OK
AtLoopEnd(w) ==
    /\ downloads[w].pc = "extract"
    /\ downloads[w].archive.open
    /\ downloads[w].idx > Len(downloads[w].archive.entries)

\* thread w's extract_archive_to_dir returns false in this step
ReturnsFailed(w) ==
    /\ downloads'[w].pc = "end"
    /\ downloads'[w].ok = -1
    /\ downloads'[w].doneCount = downloads[w].doneCount
    /\ gExtractOk' = -1

\* C22: in pass 2 a failed header write only skips that entry (nothing of
\* it is written, the loop goes on to the next entry, the outcome stays
\* open); a failed data copy ends the extraction in Failed with "extract
\* data failed" and no further entry; a header loop that stops on anything
\* but end-of-archive ends it in Failed with "read header failed"; and the
\* extraction returns success only from the end of the loop at
\* end-of-archive.
C22_OnlyHeaderWriteFailureIsSwallowed ==
    [][\A w \in Workers :
          LET d == downloads[w]
              e == d.archive.entries[d.idx]
          IN
          (d.pc = "extract" /\ (downloads'[w].pc # "extract" \/ downloads'[w].idx # d.idx)) =>
             /\ (AtWritableEntry(w) /\ ~e.hdr) =>
                   /\ downloads'[w].pc = "extract"
                   /\ downloads'[w].idx = d.idx + 1
                   /\ downloads'[w].written = d.written
                   /\ UNCHANGED <<gExtractOk, gExtractErr>>
             /\ (AtWritableEntry(w) /\ e.hdr /\ ~e.data) =>
                   /\ ReturnsFailed(w)
                   /\ gExtractErr' = "extract data failed"
             /\ (AtLoopEnd(w) /\ d.archive.tail # "eof") =>
                   /\ ReturnsFailed(w)
                   /\ gExtractErr' = "read header failed"
             /\ (d.pc = "extract" /\ downloads'[w].pc = "end" /\ downloads'[w].ok = 1) =>
                   /\ AtLoopEnd(w)
                   /\ d.archive.tail = "eof"
                   /\ gExtractOk' = 1]_vars

\* C22 witness: an extraction has returned success although the header
\* write of its first entry failed; only the second entry was written, and
\* both count as done
C22_Witness ==
    \E w \in Workers :
        LET d == downloads[w] IN
        /\ d.pc = "end"
        /\ d.ok = 1
        /\ gExtractOk = 1
        /\ Len(d.archive.entries) = 2
        /\ ~d.archive.entries[1].hdr
        /\ d.doneCount = 2
        /\ d.written = {safe_join(ExtractDirOf(d.outPath), d.archive.entries[2].path).path}

\* ------------------------------------------------------------------------
\* Claims about what start_download hands to its thread (SpecView, SpecPipe)
\* ------------------------------------------------------------------------

\* start_download starts thread w in this step
Launches(w) == downloads[w].pc = "idle" /\ downloads'[w].pc = "start"

\* the asset index start_download derives from the selected row
RealIndexOfRow ==
    IF gAssetIndexMap # <<>> THEN gAssetIndexMap[gAssetsValue] ELSE gAssetsValue - 1

\* C24: whenever start_download starts a thread, the selected release index
\* and the asset index derived from the selected row are in range of the
\* collection as it is then, and the asset handed to the thread is that
\* asset and bears the name shown at the selected row; whatever refreshes,
\* release changes, filter changes and resets came before.
C24_HandsOverTheDisplayedAsset ==
    [][\A w \in Workers : Launches(w) =>
          /\ gReleaseValue >= 0
          /\ gReleaseValue < Len(gReleases)
          /\ gAssetsValue \in 1..Len(gAssetsItems)
          /\ RealIndexOfRow >= 0
          /\ RealIndexOfRow < Len(gReleases[gReleaseValue + 1].assets)
          /\ downloads'[w].url = gReleases[gReleaseValue + 1].assets[RealIndexOfRow + 1].name
          /\ downloads'[w].url = gAssetsItems[gAssetsValue]]_vars

\* the progress callback of thread w's transfer returns 1 in this step
AbortStep(w) == downloads[w].pc = "transfer" /\ downloads'[w].res = "ABORTED"

\* C25: start_download leaves the cancel flag cleared when it starts a
\* thread, whatever the flag was, so a Cancel clicked while no transfer was
\* in flight is forgotten; and a transfer is aborted only when Cancel was
\* clicked after start_download started it.
C25_EarlierCancelDoesNotAbort ==
    [][\A w \in Workers :
          /\ Launches(w) => (~gCancel' /\ ~downloads'[w].cancelSince)
          /\ AbortStep(w) => downloads[w].cancelSince]_vars

\* C25 witness: Cancel was clicked before any download was started, the
\* first download was started with the flag still set, no Cancel came
\* after, and its transfer has been polled MaxTicks times without aborting
C25_Witness ==
    /\ downloads[1].pc = "transfer"
    /\ downloads[1].flagAtStart
    /\ ~downloads[1].cancelSince
    /\ downloads[1].ticks = MaxTicks
    /\ ~gCancel
    /\ downloads[2].pc = "idle"

====
